---- MODULE Spec2Model ----
(***************************************************************************)
(* Model of the retrying request handler of api/analyze.js (lines 102-215):*)
(* method check, credential check, body parse, request classification,     *)
(* upstream call with 429-only exponential backoff, response               *)
(* normalisation and the catch-all error boundary.                         *)
(*                                                                         *)
(* One action is one run-to-completion segment of the async function, cut  *)
(* at its suspension points (await fetch, await response.json(), await     *)
(* setTimeout), with the synchronous prologue split at its early returns.  *)
(* Every variable is a function over the set of running invocations.       *)
(***************************************************************************)
EXTENDS Integers, Sequences, FiniteSets, TLC

\* ------------------------------------------------------------ bounds

\* Longest upstream text payload, in tokens.
MaxLen == 3

\* ------------------------------------------------- program constants

maxRetries == 5

retryDelays == <<1000, 2000, 4000, 8000, 16000>>

\* ------------------------------------------------------- JS values

\* Marker of an absent (undefined) string-valued property.
UNDEF == "<undefined>"

\* JavaScript truthiness of an optional string: undefined and "" are falsy.
Truthy(s) == s # UNDEF /\ s # ""

\* The characters String.prototype.trim removes that the model draws.
IsSpace(c) == c \in {" ", "\n"}

RECURSIVE TrimStart(_)
TrimStart(s) ==
    IF s # <<>> /\ IsSpace(Head(s)) THEN TrimStart(Tail(s)) ELSE s

RECURSIVE TrimEnd(_)
TrimEnd(s) ==
    IF s # <<>> /\ IsSpace(s[Len(s)])
    THEN TrimEnd(SubSeq(s, 1, Len(s) - 1))
    ELSE s

\* String.prototype.trim on a sequence of characters.
Trim(s) == TrimEnd(TrimStart(s))

\* ------------------------------------------------------ the request

Methods == {"POST", "GET", "PUT"}

\* process.env.GEMINI_API_KEY: undefined, or a string of characters.
NoKey == [def |-> FALSE, s |-> <<>>]

KeyOf(s) == [def |-> TRUE, s |-> s]

Credentials ==
    {NoKey, KeyOf(<<>>), KeyOf(<<" ">>), KeyOf(<<" ", "\n">>), KeyOf(<<"K">>)}

Types ==
    {UNDEF, "market_data", "dividend_ranking", "yutai_list", "ranking", "chat"}

Queries == {UNDEF, "", "7203"}

Prompts == {UNDEF, "", "Answer briefly"}

\* The values a request body can denote: an object with the three properties
\* the handler reads, a primitive (number, boolean, string: every property
\* read gives undefined), null, or undefined (no body).
NoFields == [type |-> UNDEF, query |-> UNDEF, prompt |-> UNDEF]

BodyValues ==
    {[t |-> "object", f |-> [type |-> ty, query |-> q, prompt |-> pr]] :
        ty \in Types, q \in Queries, pr \in Prompts}
    \cup {[t |-> k, f |-> NoFields] : k \in {"primitive", "null", "undefined"}}

\* req.body: already a value (the runtime parsed it), or a string that is
\* either the JSON text of a value or text that is not JSON at all.
Bodies ==
    {[isString |-> FALSE, wellFormed |-> TRUE, value |-> v] : v \in BodyValues}
    \cup {[isString |-> TRUE, wellFormed |-> TRUE, value |-> v] :
            v \in BodyValues \ {[t |-> "undefined", f |-> NoFields]}}
    \cup {[isString |-> TRUE, wellFormed |-> FALSE,
           value |-> [t |-> "undefined", f |-> NoFields]]}

Requests == [method : Methods, body : Bodies]

\* ------------------------------------------------------ the upstream

\* HTTP statuses fetch can resolve with; Response.ok is 200..299.
Statuses == {200, 204, 304, 400, 429, 500, 503}

Ok(st) == st >= 200 /\ st <= 299

\* error.message of what fetch rejects with.
FetchErrors == {"fetch failed"}

UpstreamMessages == {"Resource has been exhausted", "Internal error"}

\* Body of a non-success response: not JSON, the JSON value null, or a JSON
\* value whose error.message is msg (UNDEF when the path is missing).
ErrBodies ==
    {[json |-> "invalid", message |-> UNDEF], [json |-> "null", message |-> UNDEF]}
    \cup {[json |-> "value", message |-> m] :
            m \in {UNDEF, ""} \cup UpstreamMessages}

\* Tokens of an upstream text payload: a run of three backticks, a letter,
\* a newline, a digit.
Fence == "BACKTICKS3"

Tokens == {Fence, "j", "\n", "1"}

IsLetter(c) == c = "j"

RECURSIVE SeqsUpTo(_)
SeqsUpTo(n) ==
    IF n = 0 THEN {<<>>}
    ELSE LET shorter == SeqsUpTo(n - 1)
         IN  shorter \cup {Append(s, c) : s \in {x \in shorter : Len(x) = n - 1},
                                          c \in Tokens}

Texts == SeqsUpTo(MaxLen)

\* Body of a success response: not JSON, the JSON value null, or a JSON value
\* whose candidates[0].content.parts[0].text is missing or falsy ("none"),
\* a string ("string") or another truthy value such as a number ("other").
OkBodies ==
    {[json |-> "invalid", kind |-> "none", text |-> <<>>],
     [json |-> "null", kind |-> "none", text |-> <<>>],
     [json |-> "value", kind |-> "none", text |-> <<>>],
     [json |-> "value", kind |-> "other", text |-> <<>>]}
    \cup {[json |-> "value", kind |-> "string", text |-> s] : s \in Texts \ {<<>>}}

NoBody == [json |-> "invalid", kind |-> "none", text |-> <<>>]

\* errData before line 180 has run in the current pass of the loop.
NoErrData == [json |-> "unread", message |-> UNDEF]

\* ------------------------------------------------ pure functions

\* What JSON.parse gives for a request body string: a value, or a SyntaxError.
JSONparseBody(body) ==
    IF body.wellFormed
    THEN [threw |-> FALSE, value |-> body.value]
    ELSE [threw |-> TRUE, value |-> body.value]

\* const { type, query, prompt: systemPrompt } = bodyData: a TypeError on
\* null and undefined, the properties of an object, undefined on a primitive.
Destructure(v) ==
    IF v.t \in {"null", "undefined"}
    THEN [threw |-> TRUE, f |-> NoFields]
    ELSE [threw |-> FALSE, f |-> v.f]

\* Prompt texts, as sequences of fragments (a template literal concatenates).
MarketDataInstruction == <<"market data: answer only as the six-field JSON">>

MarketDataMessage == <<"today's main market indicators">>

DividendInstruction == <<"top 10 dividend yields as an HTML table">>

DividendMessage == <<"latest dividend ranking TOP10">>

YutaiInstruction == <<"this month's shareholder-benefit stocks as HTML">>

YutaiMessage == <<"this month's shareholder-benefit list">>

AnalystInstruction == <<"answer in Japanese as a professional analyst">>

TrendMessage == <<"tell me about the current market trend">>

\* The classifier setting isJsonResponse for dividend_ranking too.
ClassifyRankingAsJson(f) ==
    IF f.type = "market_data"
    THEN [systemInstruction |-> MarketDataInstruction,
          userMessage |-> MarketDataMessage, isJsonResponse |-> TRUE]
    ELSE IF f.type = "dividend_ranking"
    THEN [systemInstruction |-> DividendInstruction,
          userMessage |-> DividendMessage, isJsonResponse |-> TRUE]
    ELSE IF f.type = "yutai_list"
    THEN [systemInstruction |-> YutaiInstruction,
          userMessage |-> YutaiMessage, isJsonResponse |-> FALSE]
    ELSE [systemInstruction |->
              IF Truthy(f.prompt) THEN <<f.prompt>> ELSE AnalystInstruction,
          userMessage |->
              IF Truthy(f.query) THEN <<"analysis target: ", f.query>>
              ELSE TrendMessage,
          isJsonResponse |-> FALSE]

\* The classifier embedding the query without the fallback for an empty one,
\* as the handler of lines 2-101 does (line 52).
ClassifyNoQueryFallback(f) ==
    IF f.type = "market_data"
    THEN [systemInstruction |-> MarketDataInstruction,
          userMessage |-> MarketDataMessage, isJsonResponse |-> TRUE]
    ELSE IF f.type = "dividend_ranking"
    THEN [systemInstruction |-> DividendInstruction,
          userMessage |-> DividendMessage, isJsonResponse |-> FALSE]
    ELSE IF f.type = "yutai_list"
    THEN [systemInstruction |-> YutaiInstruction,
          userMessage |-> YutaiMessage, isJsonResponse |-> FALSE]
    ELSE [systemInstruction |->
              IF Truthy(f.prompt) THEN <<f.prompt>> ELSE AnalystInstruction,
          userMessage |-> <<"analysis target: ", f.query>>,
          isJsonResponse |-> FALSE]

\* The classifier letting the caller's prompt replace the instruction of
\* every type but market_data.
ClassifyPromptFirst(f) ==
    IF f.type = "market_data"
    THEN [systemInstruction |-> MarketDataInstruction,
          userMessage |-> MarketDataMessage, isJsonResponse |-> TRUE]
    ELSE IF f.type = "dividend_ranking"
    THEN [systemInstruction |->
              IF Truthy(f.prompt) THEN <<f.prompt>> ELSE DividendInstruction,
          userMessage |-> DividendMessage, isJsonResponse |-> FALSE]
    ELSE IF f.type = "yutai_list"
    THEN [systemInstruction |->
              IF Truthy(f.prompt) THEN <<f.prompt>> ELSE YutaiInstruction,
          userMessage |-> YutaiMessage, isJsonResponse |-> FALSE]
    ELSE [systemInstruction |->
              IF Truthy(f.prompt) THEN <<f.prompt>> ELSE AnalystInstruction,
          userMessage |->
              IF Truthy(f.query) THEN <<"analysis target: ", f.query>>
              ELSE TrendMessage,
          isJsonResponse |-> FALSE]

\* Lines 119-154: the (systemInstruction, userMessage, isJsonResponse) triple.
Classify(f) ==
    IF f.type = "market_data"
    THEN [systemInstruction |-> MarketDataInstruction,
          userMessage |-> MarketDataMessage, isJsonResponse |-> TRUE]
    ELSE IF f.type = "dividend_ranking"
    THEN [systemInstruction |-> DividendInstruction,
          userMessage |-> DividendMessage, isJsonResponse |-> FALSE]
    ELSE IF f.type = "yutai_list"
    THEN [systemInstruction |-> YutaiInstruction,
          userMessage |-> YutaiMessage, isJsonResponse |-> FALSE]
    ELSE [systemInstruction |->
              IF Truthy(f.prompt) THEN <<f.prompt>> ELSE AnalystInstruction,
          userMessage |->
              IF Truthy(f.query) THEN <<"analysis target: ", f.query>>
              ELSE TrendMessage,
          isJsonResponse |-> FALSE]

\* The upstream request always declaring text/plain.
UpstreamRequestPlain(key, sys, msg, isJson) ==
    [key |-> key, contents |-> msg, systemInstruction |-> sys,
     tools |-> {"google_search"}, responseMimeType |-> "text/plain"]

\* The body of the request sent upstream (lines 165-176).
UpstreamRequest(key, sys, msg, isJson) ==
    [key |-> key, contents |-> msg, systemInstruction |-> sys,
     tools |-> {"google_search"},
     responseMimeType |-> IF isJson THEN "application/json" ELSE "text/plain"]

RECURSIVE DropLetters(_)
DropLetters(s) ==
    IF s # <<>> /\ IsLetter(Head(s)) THEN DropLetters(Tail(s)) ELSE s

\* resultText.replace(/```[a-z]*\n?/gi, ''): every fence with the letters
\* and the one newline that follow it is removed, left to right.
RECURSIVE ReplaceFenceLines(_)
ReplaceFenceLines(s) ==
    IF s = <<>> THEN <<>>
    ELSE IF Head(s) = Fence
    THEN LET r == DropLetters(Tail(s))
         IN  ReplaceFenceLines(IF r # <<>> /\ Head(r) = "\n" THEN Tail(r) ELSE r)
    ELSE <<Head(s)>> \o ReplaceFenceLines(Tail(s))

\* .replace(/```/g, ''): every remaining fence is removed.
ReplaceFences(s) == SelectSeq(s, LAMBDA c : c # Fence)

\* Line 200.
CleanText(s) == Trim(ReplaceFences(ReplaceFenceLines(s)))

IsDigit(c) == c = "1"

\* JSON.parse of a text payload: JSON whitespace around one value; over the
\* tokens drawn the only values are the numbers, a non-empty run of digits.
JSONparseText(s) ==
    LET body == Trim(s)
    IN  IF body # <<>> /\ \A k \in 1..Len(body) : IsDigit(body[k])
        THEN [threw |-> FALSE, value |-> body]
        ELSE [threw |-> TRUE, value |-> <<>>]

\* ------------------------------------------------------- responses

ErrorBody(msg) == [kind |-> "error", error |-> msg, payload |-> <<>>]

JsonBody(v) == [kind |-> "json", error |-> <<>>, payload |-> v]

TextBody(s) == [kind |-> "text", error |-> <<>>, payload |-> s]

MethodNotAllowed == <<"Method not allowed">>

KeyNotConfigured == <<"API key is not set; check GEMINI_API_KEY">>

CommunicationError == <<"API communication error">>

CoolDown == <<"usage limit reached; wait about a minute and retry">>

ParseFailed == <<"failed to parse the data">>

\* `サーバーエラー: ${error.message}`
ServerError(message) == <<"server error: ", message>>

\* error.message of the exceptions the try block can raise.
SyntaxErrorMessage == "Unexpected token"

TypeErrorMessage == "Cannot read properties"

\* ------------------------------------------------------- the state

VARIABLES
    req,                \* the inbound request of each invocation
    GEMINI_API_KEY,     \* process.env.GEMINI_API_KEY as each invocation reads it
    pc,                 \* where each invocation stands
    bodyFields,         \* type, query, systemPrompt (line 117)
    systemInstruction,  \* line 119
    userMessage,        \* line 120
    isJsonResponse,     \* line 121
    i,                  \* the loop counter (line 164)
    response,           \* status of the last upstream response, 0 before any
    lastError,          \* line 160
    errData,            \* the error body read at line 180, while in scope
    apiData,            \* the success body read at line 197
    calls,              \* the requests sent upstream, in order
    trace,              \* what happened, in order: fetch, response, reject,
                        \* sleep, wake, send
    sent,               \* the responses sent through res, in order
    thrown              \* whether an exception left the handler

vars ==
    <<req, GEMINI_API_KEY, pc, bodyFields, systemInstruction, userMessage,
      isJsonResponse, i, response, lastError, errData, apiData, calls,
      trace, sent, thrown>>

\* The locals of the classifier.
promptVars == <<bodyFields, systemInstruction, userMessage, isJsonResponse>>

\* The locals of the retry loop and of the normaliser.
loopVars == <<i, response, lastError, errData, apiData, calls>>

Ev(e, n) == [ev |-> e, n |-> n]

\* A try block opened only after the body has been parsed.
InTryAfterParse(at) ==
    at \in {"classify", "loop", "awaitFetch", "awaitErrJson", "sleeping",
            "awaitJson"}

\* The program points inside the try block of lines 115-211.
InTry(at) ==
    at \in {"body", "classify", "loop", "awaitFetch", "awaitErrJson",
            "sleeping", "awaitJson"}

\* The invocations P are about to run, their requests drawn from R and the
\* credential each will read from K.
InitOf(P, R, K) ==
    /\ req \in [P -> R]
    /\ GEMINI_API_KEY \in [P -> K]
    /\ pc = [p \in P |-> "start"]
    /\ bodyFields = [p \in P |-> NoFields]
    /\ systemInstruction = [p \in P |-> <<>>]
    /\ userMessage = [p \in P |-> <<>>]
    /\ isJsonResponse = [p \in P |-> FALSE]
    /\ i = [p \in P |-> 0]
    /\ response = [p \in P |-> 0]
    /\ lastError = [p \in P |-> <<>>]
    /\ errData = [p \in P |-> NoErrData]
    /\ apiData = [p \in P |-> NoBody]
    /\ calls = [p \in P |-> <<>>]
    /\ trace = [p \in P |-> <<>>]
    /\ sent = [p \in P |-> <<>>]
    /\ thrown = [p \in P |-> FALSE]

InitFor(P) == InitOf(P, Requests, Credentials)

Init == InitFor({1})

\* The invocation moves on without responding.
Goto(p, at, evs) ==
    /\ pc' = [pc EXCEPT ![p] = at]
    /\ trace' = [trace EXCEPT ![p] = @ \o evs]
    /\ UNCHANGED <<sent, thrown>>

\* res.status(st).json(body), after which the handler returns.
Reply(p, st, body, evs) ==
    /\ sent' = [sent EXCEPT ![p] = Append(@, [status |-> st, body |-> body])]
    /\ pc' = [pc EXCEPT ![p] = "done"]
    /\ trace' = [trace EXCEPT ![p] = @ \o evs \o <<Ev("send", st)>>]
    /\ UNCHANGED thrown

\* The catch clause putting the credential (the request URL) in its message.
RaiseWithKey(p, message, evs) ==
    IF InTry(pc[p])
    THEN Reply(p, 500,
               ErrorBody(ServerError(message) \o GEMINI_API_KEY[p].s), evs)
    ELSE /\ thrown' = [thrown EXCEPT ![p] = TRUE]
         /\ pc' = [pc EXCEPT ![p] = "rejected"]
         /\ trace' = [trace EXCEPT ![p] = @ \o evs]
         /\ UNCHANGED sent

\* The handler without its catch clause: every exception leaves it and no
\* response is sent.
RaiseUncaught(p, message, evs) ==
    /\ thrown' = [thrown EXCEPT ![p] = TRUE]
    /\ pc' = [pc EXCEPT ![p] = "rejected"]
    /\ trace' = [trace EXCEPT ![p] = @ \o evs]
    /\ UNCHANGED sent

\* An exception with this message is raised: inside the try block the catch
\* clause of lines 212-214 answers 500, outside it the exception leaves.
Raise(p, message, evs) ==
    IF InTry(pc[p])
    THEN Reply(p, 500, ErrorBody(ServerError(message)), evs)
    ELSE /\ thrown' = [thrown EXCEPT ![p] = TRUE]
         /\ pc' = [pc EXCEPT ![p] = "rejected"]
         /\ trace' = [trace EXCEPT ![p] = @ \o evs]
         /\ UNCHANGED sent

\* The method check turning away GET only.
CheckMethodGetOnly(p) ==
    /\ pc[p] = "start"
    /\ IF req[p].method = "GET"
       THEN Reply(p, 405, ErrorBody(MethodNotAllowed), <<>>)
       ELSE Goto(p, "credential", <<>>)
    /\ UNCHANGED <<req, GEMINI_API_KEY, promptVars, loopVars>>

\* Lines 104-106.
CheckMethod(p) ==
    /\ pc[p] = "start"
    /\ IF req[p].method # "POST"
       THEN Reply(p, 405, ErrorBody(MethodNotAllowed), <<>>)
       ELSE Goto(p, "credential", <<>>)
    /\ UNCHANGED <<req, GEMINI_API_KEY, promptVars, loopVars>>

\* The check without its trim: !apiKey alone.
KeyMissingNoTrim(apiKey) ==
    \/ ~apiKey.def
    \/ apiKey.s = <<>>

\* !apiKey || apiKey.trim() === "" (line 109).
KeyMissing(apiKey) ==
    \/ ~apiKey.def
    \/ apiKey.s = <<>>
    \/ Trim(apiKey.s) = <<>>

\* Lines 108-113.
CheckCredential(p) ==
    /\ pc[p] = "credential"
    /\ IF KeyMissing(GEMINI_API_KEY[p])
       THEN Reply(p, 500, ErrorBody(KeyNotConfigured), <<>>)
       ELSE Goto(p, "body", <<>>)
    /\ UNCHANGED <<req, GEMINI_API_KEY, promptVars, loopVars>>

\* Lines 116-117.
ParseBody(p) ==
    /\ pc[p] = "body"
    /\ LET parsed == IF req[p].body.isString
                     THEN JSONparseBody(req[p].body)
                     ELSE [threw |-> FALSE, value |-> req[p].body.value]
           d == Destructure(parsed.value)
       IN  IF parsed.threw
           THEN Raise(p, SyntaxErrorMessage, <<>>) /\ UNCHANGED bodyFields
           ELSE IF d.threw
           THEN Raise(p, TypeErrorMessage, <<>>) /\ UNCHANGED bodyFields
           ELSE /\ bodyFields' = [bodyFields EXCEPT ![p] = d.f]
                /\ Goto(p, "classify", <<>>)
    /\ UNCHANGED <<req, GEMINI_API_KEY, systemInstruction, userMessage,
                   isJsonResponse, loopVars>>

\* Lines 119-154.
ClassifyRequest(p) ==
    /\ pc[p] = "classify"
    /\ LET c == Classify(bodyFields[p])
       IN  /\ systemInstruction' = [systemInstruction EXCEPT ![p] = c.systemInstruction]
           /\ userMessage' = [userMessage EXCEPT ![p] = c.userMessage]
           /\ isJsonResponse' = [isJsonResponse EXCEPT ![p] = c.isJsonResponse]
    /\ Goto(p, "loop", <<>>)
    /\ UNCHANGED <<req, GEMINI_API_KEY, bodyFields, loopVars>>

\* Lines 193-197, reached when the loop is left: the cool-down answer when
\* the last response is not a success, else the success body is awaited.
AfterLoop(p, st, evs) ==
    IF ~Ok(st)
    THEN Reply(p, 429, ErrorBody(CoolDown), evs)
    ELSE Goto(p, "awaitJson", evs)

\* One pass of the loop header with counter n (line 164) and, when the test
\* passes, the fetch of lines 165-176, which suspends the invocation.
LoopTest(p, n, evs) ==
    IF n <= maxRetries
    THEN /\ calls' = [calls EXCEPT ![p] =
                Append(@, UpstreamRequest(GEMINI_API_KEY[p], systemInstruction[p],
                                          userMessage[p], isJsonResponse[p]))]
         /\ Goto(p, "awaitFetch", evs \o <<Ev("fetch", n)>>)
    ELSE /\ AfterLoop(p, response[p], evs)
         /\ UNCHANGED calls

\* Lines 156-164: the loop is entered with i = 0.
EnterLoop(p) ==
    /\ pc[p] = "loop"
    /\ i' = [i EXCEPT ![p] = 0]
    /\ LoopTest(p, 0, <<>>)
    /\ UNCHANGED <<req, GEMINI_API_KEY, promptVars, response, lastError, errData,
                   apiData>>

\* The fetch resolves with a response (lines 165, 178): a success breaks out
\* of the loop, anything else goes on to read the error body.
FetchResolve(p) ==
    /\ pc[p] = "awaitFetch"
    /\ \E st \in Statuses :
        /\ response' = [response EXCEPT ![p] = st]
        /\ IF Ok(st)
           THEN AfterLoop(p, st, <<Ev("response", st)>>)
           ELSE Goto(p, "awaitErrJson", <<Ev("response", st)>>)
    /\ UNCHANGED <<req, GEMINI_API_KEY, promptVars, i, lastError, errData, apiData,
                   calls>>

\* The fetch rejects (a network failure): the catch clause answers.
FetchReject(p) ==
    /\ pc[p] = "awaitFetch"
    /\ \E m \in FetchErrors : Raise(p, m, <<Ev("reject", 0)>>)
    /\ UNCHANGED <<req, GEMINI_API_KEY, promptVars, loopVars>>

\* A retry rule that waits after every failure while the budget lasts.
RetryableAnyFailure(st, n) == ~Ok(st) /\ n < maxRetries

\* Whether the wait of line 185 is taken (line 184).
Retryable(st, n) == st = 429 /\ n < maxRetries

\* The error branch with the timer of line 185 started but not awaited: the
\* next pass of the loop begins at once.
ErrJsonResolveNoAwait(p) ==
    /\ pc[p] = "awaitErrJson"
    /\ \E b \in ErrBodies :
        LET data == IF b.json = "invalid"
                    THEN [json |-> "value", message |-> UNDEF]
                    ELSE b
            message == IF Truthy(data.message)
                       THEN <<data.message>>
                       ELSE CommunicationError
        IN  /\ errData' = [errData EXCEPT ![p] = b]
            /\ IF data.json = "null"
               THEN Raise(p, TypeErrorMessage, <<>>)
                    /\ UNCHANGED <<lastError, i, calls>>
               ELSE /\ lastError' = [lastError EXCEPT ![p] = message]
                    /\ IF Retryable(response[p], i[p])
                       THEN /\ i' = [i EXCEPT ![p] = @ + 1]
                            /\ LoopTest(p, i[p] + 1,
                                        <<Ev("sleep", retryDelays[i[p] + 1])>>)
                       ELSE /\ Reply(p, response[p], ErrorBody(message), <<>>)
                            /\ UNCHANGED <<i, calls>>
    /\ UNCHANGED <<req, GEMINI_API_KEY, promptVars, response, apiData>>

\* Lines 180-190: the error body is read; a body that is not JSON counts as
\* {}, the JSON value null makes errData.error raise a TypeError.
ErrJsonResolve(p) ==
    /\ pc[p] = "awaitErrJson"
    /\ \E b \in ErrBodies :
        LET data == IF b.json = "invalid"
                    THEN [json |-> "value", message |-> UNDEF]
                    ELSE b
            message == IF Truthy(data.message)
                       THEN <<data.message>>
                       ELSE CommunicationError
        IN  /\ errData' = [errData EXCEPT ![p] = b]
            /\ IF data.json = "null"
               THEN Raise(p, TypeErrorMessage, <<>>) /\ UNCHANGED lastError
               ELSE /\ lastError' = [lastError EXCEPT ![p] = message]
                    /\ IF Retryable(response[p], i[p])
                       THEN Goto(p, "sleeping",
                                 <<Ev("sleep", retryDelays[i[p] + 1])>>)
                       ELSE Reply(p, response[p], ErrorBody(message), <<>>)
    /\ UNCHANGED <<req, GEMINI_API_KEY, promptVars, i, response, apiData, calls>>

\* The timer step with the counter i held in one variable of the module,
\* shared by every invocation.
TimerFiresSharedCounter(p) ==
    /\ pc[p] = "sleeping"
    /\ i' = [q \in DOMAIN i |-> i[p] + 1]
    /\ errData' = [errData EXCEPT ![p] = NoErrData]
    /\ LoopTest(p, i[p] + 1, <<Ev("wake", retryDelays[i[p] + 1])>>)
    /\ UNCHANGED <<req, GEMINI_API_KEY, promptVars, response, lastError, apiData>>

\* The timer of line 185 fires: continue (the pass ends and its errData
\* goes out of scope), i++, the loop test, the next fetch.
TimerFires(p) ==
    /\ pc[p] = "sleeping"
    /\ i' = [i EXCEPT ![p] = @ + 1]
    /\ errData' = [errData EXCEPT ![p] = NoErrData]
    /\ LoopTest(p, i[p] + 1, <<Ev("wake", retryDelays[i[p] + 1])>>)
    /\ UNCHANGED <<req, GEMINI_API_KEY, promptVars, response, lastError, apiData>>

\* The normaliser without its JSON branch.
NormalizeAsText(p, resultText) ==
    Reply(p, 200, TextBody(resultText), <<>>)

\* Lines 202-210 on the cleaned text. At line 204 res.status(200) runs before
\* JSON.parse throws, and line 206 then sets 500 and sends: one response.
Normalize(p, resultText) ==
    IF isJsonResponse[p]
    THEN LET parsed == JSONparseText(resultText)
         IN  IF parsed.threw
             THEN Reply(p, 500, ErrorBody(ParseFailed), <<>>)
             ELSE Reply(p, 200, JsonBody(parsed.value), <<>>)
    ELSE Reply(p, 200, TextBody(resultText), <<>>)

\* Lines 197-210: the success body is read. A body that is not JSON rejects,
\* null makes apiData.candidates raise, a truthy text that is no string has
\* no replace method; all three land in the catch clause.
JsonResolve(p) ==
    /\ pc[p] = "awaitJson"
    /\ \E b \in OkBodies :
        /\ apiData' = [apiData EXCEPT ![p] = b]
        /\ IF b.json = "invalid"
           THEN Raise(p, SyntaxErrorMessage, <<>>)
           ELSE IF b.json = "null" \/ b.kind = "other"
           THEN Raise(p, TypeErrorMessage, <<>>)
           ELSE Normalize(p, CleanText(IF b.kind = "string" THEN b.text ELSE <<>>))
    /\ UNCHANGED <<req, GEMINI_API_KEY, promptVars, i, response, lastError, errData,
                   calls>>

\* The invocations that exist.
Invocations == DOMAIN pc

Next ==
    \/ \E p \in Invocations : CheckMethod(p)
    \/ \E p \in Invocations : CheckCredential(p)
    \/ \E p \in Invocations : ParseBody(p)
    \/ \E p \in Invocations : ClassifyRequest(p)
    \/ \E p \in Invocations : EnterLoop(p)
    \/ \E p \in Invocations : FetchResolve(p)
    \/ \E p \in Invocations : FetchReject(p)
    \/ \E p \in Invocations : ErrJsonResolve(p)
    \/ \E p \in Invocations : TimerFires(p)
    \/ \E p \in Invocations : JsonResolve(p)

Spec == Init /\ [][Next]_vars

\* ------------------------------------------- what a run has done

Done(p) == pc[p] = "done"

\* The n of the events of one kind, in order.
EventsOf(p, e) ==
    LET es == SelectSeq(trace[p], LAMBDA x : x.ev = e)
    IN  [k \in 1..Len(es) |-> es[k].n]

\* The statuses the upstream answered with, one per answered call.
Responses(p) == EventsOf(p, "response")

\* The delays waited, in order.
Waits(p) == EventsOf(p, "sleep")

All429(rs) == \A k \in 1..Len(rs) : rs[k] = 429

\* Every call made so far was answered with a status (none threw, none is
\* in flight).
AllAnswered(p) == Len(calls[p]) = Len(Responses(p))

\* The first k entries of the delay schedule.
FirstDelays(k) == SubSeq(retryDelays, 1, k)

\* The success body can be turned into a success response: a JSON value
\* other than null whose text is absent or a string that, when JSON is
\* expected, parses once cleaned.
UsableBody(p) ==
    /\ apiData[p].json = "value"
    /\ apiData[p].kind # "other"
    /\ isJsonResponse[p] => ~JSONparseText(CleanText(apiData[p].text)).threw

\* The message line 181 is meant to give for an error body.
ReportedMessage(b) ==
    IF b.json = "value" /\ Truthy(b.message)
    THEN <<b.message>>
    ELSE CommunicationError

\* ------------------------------------------------------------ claims

\* C1: k answers of 429 (0 <= k <= 5) and then a success make exactly k+1
\* upstream calls and exactly the first k delays of the schedule, the
\* response is the success result, and the handler never stops after a 429
\* answer while fewer than maxRetries retries were spent.
C1_RetryUntilSuccess ==
    \A p \in Invocations :
        LET rs == Responses(p)
            n == Len(rs)
        IN  /\ (n >= 1 /\ n <= maxRetries + 1 /\ Ok(rs[n])
                    /\ All429(SubSeq(rs, 1, n - 1)))
                => /\ Len(calls[p]) = n
                   /\ Waits(p) = FirstDelays(n - 1)
                   /\ (Done(p) /\ UsableBody(p))
                        => /\ Len(sent[p]) = 1
                           /\ sent[p][1].status = 200
                           /\ sent[p][1].body.kind # "error"
            /\ ~(Done(p) /\ n >= 1 /\ n <= maxRetries /\ All429(rs)
                    /\ AllAnswered(p))

\* C1 on the runs in which no error body read was the JSON value null.
C1_ExceptNullErrorBody ==
    \A p \in Invocations :
        LET rs == Responses(p)
            n == Len(rs)
        IN  errData[p].json # "null"
            => /\ (n >= 1 /\ n <= maxRetries + 1 /\ Ok(rs[n])
                       /\ All429(SubSeq(rs, 1, n - 1)))
                   => /\ Len(calls[p]) = n
                      /\ Waits(p) = FirstDelays(n - 1)
                      /\ (Done(p) /\ UsableBody(p))
                           => /\ Len(sent[p]) = 1
                              /\ sent[p][1].status = 200
                              /\ sent[p][1].body.kind # "error"
               /\ ~(Done(p) /\ n >= 1 /\ n <= maxRetries /\ All429(rs)
                       /\ AllAnswered(p))

\* C2: when all maxRetries + 1 attempts were answered 429, the message of
\* the response is the fixed cool-down message, not the upstream's.
C2_CoolDownMessage ==
    \A p \in Invocations :
        (Done(p) /\ Len(Responses(p)) = maxRetries + 1 /\ All429(Responses(p)))
        => /\ Len(sent[p]) = 1
           /\ sent[p][1].body = ErrorBody(CoolDown)
           /\ sent[p][1].body.error \notin {<<m>> : m \in UpstreamMessages}

\* C3: when every answer is 429 the handler makes exactly maxRetries + 1
\* calls and waits exactly the whole schedule, none after the last attempt,
\* then responds 429; no request ever makes more than maxRetries + 1 calls.
C3_AllRateLimited ==
    \A p \in Invocations :
        /\ Len(calls[p]) <= maxRetries + 1
        /\ (Done(p) /\ Len(Responses(p)) >= 1 /\ All429(Responses(p))
                /\ AllAnswered(p))
            => /\ Len(calls[p]) = maxRetries + 1
               /\ Waits(p) = retryDelays
               /\ Len(sent[p]) = 1
               /\ sent[p][1].status = 429

\* C3 on the runs in which no error body read was the JSON value null.
C3_ExceptNullErrorBody ==
    \A p \in Invocations :
        /\ Len(calls[p]) <= maxRetries + 1
        /\ (Done(p) /\ Len(Responses(p)) >= 1 /\ All429(Responses(p))
                /\ AllAnswered(p) /\ errData[p].json # "null")
            => /\ Len(calls[p]) = maxRetries + 1
               /\ Waits(p) = retryDelays
               /\ Len(sent[p]) = 1
               /\ sent[p][1].status = 429

\* C4: a non-success answer other than 429, on whichever attempt, ends the
\* run with no further call and no wait, and the response carries exactly
\* that status and the upstream's message, or the fallback message when the
\* error body is not JSON or has no message.
C4_NonRetryableFailure ==
    \A p \in Invocations :
        LET rs == Responses(p)
            n == Len(rs)
        IN  (n >= 1 /\ ~Ok(rs[n]) /\ rs[n] # 429 /\ pc[p] # "awaitErrJson")
            => /\ Done(p)
               /\ Len(calls[p]) = n
               /\ Waits(p) = FirstDelays(n - 1)
               /\ sent[p] = <<[status |-> rs[n],
                               body |-> ErrorBody(ReportedMessage(errData[p]))]>>

\* C4 on the runs in which no error body read was the JSON value null.
C4_ExceptNullErrorBody ==
    \A p \in Invocations :
        LET rs == Responses(p)
            n == Len(rs)
        IN  (n >= 1 /\ ~Ok(rs[n]) /\ rs[n] # 429 /\ pc[p] # "awaitErrJson"
                /\ errData[p].json # "null")
            => /\ Done(p)
               /\ Len(calls[p]) = n
               /\ Waits(p) = FirstDelays(n - 1)
               /\ sent[p] = <<[status |-> rs[n],
                               body |-> ErrorBody(ReportedMessage(errData[p]))]>>

\* The credential is absent, empty or made of whitespace only.
Blank(k) == ~k.def \/ \A j \in 1..Len(k.s) : IsSpace(k.s[j])

\* The body is a string that is not JSON.
Malformed(body) == body.isString /\ ~body.wellFormed

\* The last answer of the upstream was a success.
Succeeded(p) ==
    LET rs == Responses(p)
    IN  Len(rs) >= 1 /\ Ok(rs[Len(rs)])

\* C5: a POST request of any category and any body, well-formed or not,
\* whose credential is absent, empty or whitespace-only is answered 500
\* with no upstream call, before the body is parsed.
C5_MissingCredential ==
    \A p \in Invocations :
        (req[p].method = "POST" /\ Blank(GEMINI_API_KEY[p]))
        => /\ calls[p] = <<>>
           /\ pc[p] \in {"start", "credential", "done"}
           /\ bodyFields[p] = NoFields
           /\ Done(p)
                => sent[p] = <<[status |-> 500, body |-> ErrorBody(KeyNotConfigured)]>>

\* C5's case: a POST with a whitespace-only credential and a malformed body
\* has been answered 500.
C5_Witness ==
    \E p \in Invocations :
        /\ Done(p)
        /\ req[p].method = "POST"
        /\ GEMINI_API_KEY[p] = KeyOf(<<" ", "\n">>)
        /\ Malformed(req[p].body)
        /\ sent[p][1].status = 500

\* C6: a POST with a credential whose body is a string that is not JSON is
\* answered 400 with an error message, and no upstream call is made.
C6_MalformedBody ==
    \A p \in Invocations :
        (req[p].method = "POST" /\ ~Blank(GEMINI_API_KEY[p])
            /\ Malformed(req[p].body) /\ Done(p))
        => /\ calls[p] = <<>>
           /\ Len(sent[p]) = 1
           /\ sent[p][1].status = 400
           /\ sent[p][1].body.kind = "error"
           /\ sent[p][1].body.error # <<>>

\* C7: a request whose method is not POST is answered 405 with
\* {error: 'Method not allowed'} and no upstream call, whatever the
\* credential and the body, neither of which is looked at.
C7_MethodNotAllowed ==
    \A p \in Invocations :
        req[p].method # "POST"
        => /\ calls[p] = <<>>
           /\ pc[p] \in {"start", "done"}
           /\ bodyFields[p] = NoFields
           /\ Done(p)
                => sent[p] = <<[status |-> 405, body |-> ErrorBody(MethodNotAllowed)]>>

\* C7's case: a GET with no credential and a malformed body has been
\* answered 405.
C7_Witness ==
    \E p \in Invocations :
        /\ Done(p)
        /\ req[p].method = "GET"
        /\ GEMINI_API_KEY[p] = NoKey
        /\ Malformed(req[p].body)
        /\ sent[p][1].status = 405

\* C8: for type 'market_data' and a successful upstream answer, the response
\* is 200 with the parsed value when the cleaned text parses as JSON and 500
\* with an error message when it does not (no text, an empty text and a body
\* that cannot be read included); no further upstream call follows.
C8_MarketDataJson ==
    \A p \in Invocations :
        (bodyFields[p].type = "market_data" /\ Succeeded(p))
        => /\ AllAnswered(p)
           /\ pc[p] \in {"awaitJson", "done"}
           /\ Done(p)
                => IF UsableBody(p)
                   THEN sent[p] =
                        <<[status |-> 200,
                           body |-> JsonBody(
                               JSONparseText(CleanText(apiData[p].text)).value)]>>
                   ELSE /\ Len(sent[p]) = 1
                        /\ sent[p][1].status = 500
                        /\ sent[p][1].body.kind = "error"
                        /\ sent[p][1].body.error # <<>>

\* C8's case: a fenced number came back for market_data and was answered
\* 200 with the number.
C8_Witness ==
    \E p \in Invocations :
        /\ Done(p)
        /\ bodyFields[p].type = "market_data"
        /\ apiData[p] = [json |-> "value", kind |-> "string", text |-> <<Fence, "j", "1">>]
        /\ sent[p] = <<[status |-> 200, body |-> JsonBody(<<"1">>)]>>

\* The text a free-text response carries for a success body.
ResultText(b) == IF b.kind = "string" THEN CleanText(b.text) ELSE <<>>

\* C9 as stated: for every type other than 'market_data' a successful
\* upstream answer always yields 200 with {text: s}, s the cleaned text or
\* the empty string when there is no candidate text.
C9_AlwaysText ==
    \A p \in Invocations :
        (bodyFields[p].type # "market_data" /\ Succeeded(p) /\ Done(p))
        => sent[p] = <<[status |-> 200, body |-> TextBody(ResultText(apiData[p]))]>>

\* C9 amended: for every type other than 'market_data' a successful upstream
\* answer whose body is a JSON value other than null, with a candidate text
\* that is absent, falsy or a string, yields 200 with {text: s}, s the
\* cleaned text or the empty string; a success body that is not JSON, is
\* null or carries a truthy text that is no string yields 500 with an error
\* message.
C9_TextUnlessUnreadable ==
    \A p \in Invocations :
        (bodyFields[p].type # "market_data" /\ Succeeded(p) /\ Done(p))
        => IF apiData[p].json = "value" /\ apiData[p].kind \in {"none", "string"}
           THEN sent[p] =
                <<[status |-> 200, body |-> TextBody(ResultText(apiData[p]))]>>
           ELSE /\ Len(sent[p]) = 1
                /\ sent[p][1].status = 500
                /\ sent[p][1].body.kind = "error"
                /\ sent[p][1].body.error # <<>>

\* C9's case: a fenced text came back for dividend_ranking and was answered
\* 200 with the text without its fences.
C9_Witness ==
    \E p \in Invocations :
        /\ Done(p)
        /\ bodyFields[p].type = "dividend_ranking"
        /\ apiData[p] = [json |-> "value", kind |-> "string", text |-> <<Fence, "1", Fence>>]
        /\ sent[p] = <<[status |-> 200, body |-> TextBody(<<"1">>)]>>

\* The fetch of some attempt threw.
Rejected(p) == Len(EventsOf(p, "reject")) >= 1

\* The body is malformed or denotes no object to read properties of.
BadBody(p) ==
    \/ Malformed(req[p].body)
    \/ ~req[p].body.isString /\ req[p].body.value.t \in {"null", "undefined"}
    \/ req[p].body.isString /\ req[p].body.wellFormed
        /\ req[p].body.value.t = "null"

\* The body of the request has been looked at.
PastBody(p) == pc[p] \notin {"start", "credential", "body"}

PairMaxLen == 1

\* The requests of those specifications: each method, each type, a body
\* that is an object, a malformed string or null.
PairRequests ==
    {r \in Requests :
        \/ Malformed(r.body)
        \/ ~r.body.isString /\ r.body.value.t = "null"
        \/ ~r.body.isString /\ r.body.value.t = "object"
            /\ r.body.value.f.query = "7203"
            /\ r.body.value.f.prompt = "Answer briefly"}

\* Two credentials that are not blank.
PairCredentials == {KeyOf(<<"K">>), KeyOf(<<"L">>)}

\* What the upstream gave an invocation, in order: statuses and throws.
Inputs(p) == SelectSeq(trace[p], LAMBDA x : x.ev \in {"response", "reject"})

IsPrefix(s, t) == Len(s) <= Len(t) /\ SubSeq(t, 1, Len(s)) = s

\* The upstream stays within a few statuses and short texts.
SmallUpstream(p) ==
    /\ response[p] \in {0, 200, 429, 503}
    /\ Len(apiData[p].text) <= PairMaxLen

\* Both runs saw the same upstream: the same statuses and throws, the same
\* error body on the last attempt, the same success body.
SameUpstream(p, q) ==
    /\ Inputs(p) = Inputs(q)
    /\ errData[p] = errData[q]
    /\ apiData[p] = apiData[q]

\* Run 2 starts when run 1 has finished and is given what run 1 was given,
\* as far as the statuses and throws go; the bodies it reads are free until
\* its last attempt.
SecondRunFollows ==
    /\ pc[2] # "start" => Done(1)
    /\ SmallUpstream(1) /\ SmallUpstream(2)
    /\ IsPrefix(Inputs(2), Inputs(1))
    /\ (Len(Inputs(2)) = Len(Inputs(1)) /\ pc[2] # "awaitErrJson")
        => errData[2] \in {NoErrData, errData[1]}

\* The same request handled twice, with two different credentials.
TwoRunsInit ==
    /\ InitOf({1, 2}, PairRequests, PairCredentials)
    /\ req[1] = req[2]
    /\ GEMINI_API_KEY[1] # GEMINI_API_KEY[2]

TwoRunsNext ==
    \/ \E p \in Invocations : CheckMethod(p) /\ SecondRunFollows'
    \/ \E p \in Invocations : CheckCredential(p) /\ SecondRunFollows'
    \/ \E p \in Invocations : ParseBody(p) /\ SecondRunFollows'
    \/ \E p \in Invocations : ClassifyRequest(p) /\ SecondRunFollows'
    \/ \E p \in Invocations : EnterLoop(p) /\ SecondRunFollows'
    \/ \E p \in Invocations : FetchResolve(p) /\ SecondRunFollows'
    \/ \E p \in Invocations : FetchReject(p) /\ SecondRunFollows'
    \/ \E p \in Invocations : ErrJsonResolve(p) /\ SecondRunFollows'
    \/ \E p \in Invocations : TimerFires(p) /\ SecondRunFollows'
    \/ \E p \in Invocations : JsonResolve(p) /\ SecondRunFollows'

TwoRuns == TwoRunsInit /\ [][TwoRunsNext]_vars

\* C11: two runs of the same request that differ only in the non-blank
\* credential and see the same upstream answers (statuses, error messages,
\* thrown messages, success bodies) send identical responses: no response
\* depends on the credential.
C11_CredentialNotInResponse ==
    (Done(1) /\ Done(2) /\ req[1] = req[2] /\ SameUpstream(1, 2))
    => sent[1] = sent[2]

\* C11's case: both runs were refused by the upstream with the same message
\* and both forwarded it.
C11_Witness ==
    /\ Done(1) /\ Done(2)
    /\ GEMINI_API_KEY[1] # GEMINI_API_KEY[2]
    /\ SameUpstream(1, 2)
    /\ Responses(1) = <<429, 503>>
    /\ sent[1] = <<[status |-> 503,
                    body |-> ErrorBody(<<"Resource has been exhausted">>)]>>
    /\ sent[2] = sent[1]

\* ------------------------------------------------ the classifier

\* The type the request carries, whether its body came as a string or as a
\* value.
RequestType(p) == req[p].body.value.f.type

\* C12: every attempt of a request declares 'application/json' when its type
\* is exactly 'market_data' and 'text/plain' for every other type, present,
\* unrecognized or absent, with the search tool enabled; a 200 response is
\* the parsed JSON value exactly for 'market_data' and {text} otherwise, and
\* only 'market_data' can be answered with the parse-failure message.
C12_OutputMode ==
    \A p \in Invocations :
        /\ \A k \in 1..Len(calls[p]) :
            /\ calls[p][k].responseMimeType =
                    (IF RequestType(p) = "market_data"
                     THEN "application/json" ELSE "text/plain")
            /\ calls[p][k].tools = {"google_search"}
            /\ calls[p][k].responseMimeType = calls[p][1].responseMimeType
        /\ (Done(p) /\ sent[p][1].status = 200)
            => sent[p][1].body.kind =
                    (IF RequestType(p) = "market_data" THEN "json" ELSE "text")
        /\ (Done(p) /\ sent[p][1].body = ErrorBody(ParseFailed))
            => RequestType(p) = "market_data"

\* C12's case: a market_data request was retried and answered 200; both
\* attempts declared application/json.
C12_Witness ==
    \E p \in Invocations :
        /\ Done(p)
        /\ RequestType(p) = "market_data"
        /\ Len(calls[p]) = 2
        /\ calls[p][2].responseMimeType = "application/json"
        /\ sent[p][1].status = 200
        /\ sent[p][1].body.kind = "json"

\* The classifier has run: it alone assigns the system instruction.
Classified(p) == systemInstruction[p] # <<>>

\* The types with a prompt of their own.
OwnPromptTypes == {"market_data", "dividend_ranking", "yutai_list"}

\* C13: for every unrecognized or absent type the system instruction is the
\* caller's prompt verbatim when it is present and not empty and the generic
\* analyst instruction otherwise, the user message embeds the caller's query
\* when it is not empty and is the generic trend message otherwise, and the
\* text mode is declared. The prompt being this function of the request, the
\* same input always gives the same prompt, on every attempt.
C13_Freeform ==
    \A p \in Invocations :
        (Classified(p) /\ RequestType(p) \notin OwnPromptTypes)
        => LET f == req[p].body.value.f
           IN  /\ systemInstruction[p] =
                      (IF f.prompt \notin {UNDEF, ""}
                       THEN <<f.prompt>> ELSE AnalystInstruction)
               /\ IF f.query \notin {UNDEF, ""}
                  THEN /\ Len(userMessage[p]) = 2
                       /\ userMessage[p][2] = f.query
                  ELSE userMessage[p] = TrendMessage
               /\ ~isJsonResponse[p]
               /\ \A k \in 1..Len(calls[p]) :
                    /\ calls[p][k].systemInstruction = systemInstruction[p]
                    /\ calls[p][k].contents = userMessage[p]

\* C13's case: an unrecognized type with a prompt and an empty query was
\* sent upstream with that prompt and the generic trend message.
C13_Witness ==
    \E p \in Invocations :
        /\ RequestType(p) = "chat"
        /\ req[p].body.value.f.prompt = "Answer briefly"
        /\ req[p].body.value.f.query = ""
        /\ Len(calls[p]) = 2
        /\ calls[p][2].systemInstruction = <<"Answer briefly">>
        /\ calls[p][2].contents = TrendMessage

\* C17: a request of type 'ranking' is sent upstream with an instruction of
\* its own, as 'dividend_ranking' is: not with the caller's prompt, not with
\* the generic analyst instruction, and with a user message of its own
\* rather than the embedded query or the generic trend message.
C17_RankingOwnCategory ==
    \A p \in Invocations :
        (Classified(p) /\ RequestType(p) = "ranking")
        => /\ systemInstruction[p] # AnalystInstruction
           /\ systemInstruction[p] # <<req[p].body.value.f.prompt>>
           /\ userMessage[p] # TrendMessage
           /\ userMessage[p] # <<"analysis target: ", req[p].body.value.f.query>>
           /\ \A k \in 1..Len(calls[p]) :
                calls[p][k].systemInstruction = systemInstruction[p]

\* The instruction, the message and the output mode of each type with a
\* prompt of its own.
OwnPrompt(type) ==
    IF type = "market_data"
    THEN <<MarketDataInstruction, MarketDataMessage, "application/json">>
    ELSE IF type = "dividend_ranking"
    THEN <<DividendInstruction, DividendMessage, "text/plain">>
    ELSE <<YutaiInstruction, YutaiMessage, "text/plain">>

\* C18: for the types market_data, dividend_ranking and yutai_list every
\* attempt sends the instruction, the message and the output mode of the
\* type, whatever the request's query and prompt are: requests of one such
\* type that differ in query or prompt send identical upstream requests.
\* Only when the type is none of the three does a query or a prompt that is
\* not empty appear in the upstream request.
C18_QueryAndPromptIgnored ==
    \A p \in Invocations :
        \A k \in 1..Len(calls[p]) :
            LET f == req[p].body.value.f
                call == calls[p][k]
            IN  /\ f.type \in OwnPromptTypes
                   => <<call.systemInstruction, call.contents,
                        call.responseMimeType>> = OwnPrompt(f.type)
                /\ (call.systemInstruction = <<"Answer briefly">>
                    \/ (\E j \in 1..Len(call.contents) :
                            call.contents[j] = "7203"))
                   => f.type \notin OwnPromptTypes

\* C18's case: a dividend_ranking request carrying a query and a prompt was
\* sent upstream twice with the instruction and the message of its type.
C18_Witness ==
    \E p \in Invocations :
        /\ RequestType(p) = "dividend_ranking"
        /\ req[p].body.value.f.query = "7203"
        /\ req[p].body.value.f.prompt = "Answer briefly"
        /\ Len(calls[p]) = 2
        /\ calls[p][2].systemInstruction = DividendInstruction
        /\ calls[p][2].contents = DividendMessage
        /\ calls[p][2].responseMimeType = "text/plain"

\* ---------------------------------------------------------------------
\* The order of attempts and waits
\* ---------------------------------------------------------------------

\* The k-th event of the invocation is of kind e.
IsEv(p, k, e) == k \in 1..Len(trace[p]) /\ trace[p][k].ev = e

\* The k-th event of the invocation is an upstream response of status 429.
Is429(p, k) == IsEv(p, k, "response") /\ trace[p][k].n = 429

\* C14: a wait starts only right after a 429 response to an attempt with
\* fewer than maxRetries retries used, and what follows a wait is its end
\* and then one new attempt; every attempt after the first comes right after
\* a 429 response and one wait. So no wait follows a success, a failure
\* other than 429, or the last permitted attempt.
C14_BackoffOnlyAfter429 ==
    \A p \in Invocations :
        /\ \A k \in 1..Len(trace[p]) :
            /\ IsEv(p, k, "sleep")
               => /\ Is429(p, k - 1)
                  /\ IsEv(p, k - 2, "fetch")
                  /\ trace[p][k - 2].n < maxRetries
                  /\ Len(SelectSeq(SubSeq(trace[p], 1, k - 1),
                                   LAMBDA x : x.ev = "sleep")) < maxRetries
                  /\ k < Len(trace[p]) => IsEv(p, k + 1, "wake")
            /\ IsEv(p, k, "wake")
               => /\ IsEv(p, k - 1, "sleep")
                  /\ k < Len(trace[p])
                  /\ IsEv(p, k + 1, "fetch")
                  /\ ~IsEv(p, k + 2, "fetch")
            /\ IsEv(p, k, "fetch")
               => IF k = 1
                  THEN trace[p][k].n = 0
                  ELSE /\ IsEv(p, k - 1, "wake")
                       /\ IsEv(p, k - 2, "sleep")
                       /\ Is429(p, k - 3)
                       /\ trace[p][k].n = trace[p][k - 4].n + 1
        /\ pc[p] = "sleeping" <=> IsEv(p, Len(trace[p]), "sleep")
        /\ Len(calls[p]) = Len(Waits(p)) + 1 \/ calls[p] = <<>>
           \/ pc[p] = "sleeping"

\* C14's case: two 429 responses were each followed by one wait and one new
\* attempt, the third attempt failed with 503 and no wait followed it.
C14_Witness ==
    \E p \in Invocations :
        /\ Done(p)
        /\ Responses(p) = <<429, 429, 503>>
        /\ Waits(p) = <<1000, 2000>>
        /\ Len(calls[p]) = 3
        /\ sent[p][1].status = 503

\* The number of events of the kinds es among the first k of the invocation.
Count(p, k, es) ==
    Len(SelectSeq(SubSeq(trace[p], 1, k), LAMBDA x : x.ev \in es))

\* The upstream calls started and not yet answered after the first k events.
InFlight(p, k) ==
    Count(p, k, {"fetch"}) - Count(p, k, {"response", "reject"})

\* The waits started and not yet over after the first k events.
Waiting(p, k) == Count(p, k, {"sleep"}) - Count(p, k, {"wake"})

\* C15: an invocation has at most one upstream call in flight, exactly while
\* it is suspended on the fetch; it has at most one wait pending, and none
\* while a call is in flight; and an attempt starts only when every earlier
\* call has been answered and every earlier wait is over.
C15_OneCallInFlight ==
    \A p \in Invocations :
        LET n == Len(trace[p])
        IN  /\ InFlight(p, n) \in {0, 1}
            /\ Waiting(p, n) \in {0, 1}
            /\ InFlight(p, n) + Waiting(p, n) <= 1
            /\ InFlight(p, n) = 1 <=> pc[p] = "awaitFetch"
            /\ Waiting(p, n) = 1 <=> pc[p] = "sleeping"
            /\ \A k \in 1..n :
                 trace[p][k].ev = "fetch"
                 => InFlight(p, k - 1) = 0 /\ Waiting(p, k - 1) = 0

\* C15's case: the third attempt is in flight after two answered attempts
\* and two finished waits.
C15_Witness ==
    \E p \in Invocations :
        /\ pc[p] = "awaitFetch"
        /\ Len(calls[p]) = 3
        /\ Responses(p) = <<429, 429>>
        /\ Count(p, Len(trace[p]), {"wake"}) = 2
        /\ InFlight(p, Len(trace[p])) = 1

\* ---------------------------------------------------------------------
\* Concurrent invocations
\* ---------------------------------------------------------------------

\* The requests of the concurrent invocations: POST with an object body of
\* type market_data or of an unrecognized type.
ConcurrentRequests ==
    {r \in Requests :
        /\ r.method = "POST"
        /\ ~r.body.isString /\ r.body.value.t = "object"
        /\ r.body.value.f.type \in {"market_data", "chat"}
        /\ r.body.value.f.query = "7203"
        /\ r.body.value.f.prompt = "Answer briefly"}

\* The error bodies the upstream gives them.
ConcurrentErrBodies ==
    {b \in ErrBodies :
        \/ b.json = "null"
        \/ b.json = "value" /\ b.message = "Resource has been exhausted"}

\* The state of one invocation: its locals, what it called, what it sent.
Local(p) ==
    <<req[p], GEMINI_API_KEY[p], pc[p], bodyFields[p], systemInstruction[p],
      userMessage[p], isJsonResponse[p], i[p], response[p], lastError[p],
      errData[p], apiData[p], calls[p], trace[p], sent[p], thrown[p]>>

\* Invocation 1 runs alone, before the others start. Invocations 2 and 3
\* then run together, each starting before the other has finished, and
\* invocation 2 is given the statuses and throws invocation 1 was given.
\* The upstream answers invocation 3 with 200 or 429 only.
AloneThenTogether ==
    /\ apiData[3] \in {NoBody, [json |-> "value", kind |-> "string", text |-> <<"1">>]}
    /\ apiData[2] \in {NoBody, apiData[1]}
    /\ apiData[1] = NoBody \/ apiData[1].kind = "string"
    /\ SmallUpstream(1)
    /\ response[3] \in {0, 200, 429}
    /\ errData[3] \in {NoErrData,
                       [json |-> "value", message |-> "Resource has been exhausted"]}
    /\ errData[1] \in ConcurrentErrBodies \cup {NoErrData}
    /\ errData[2] \in ConcurrentErrBodies \cup {NoErrData}
    /\ (pc[2] # "start" \/ pc[3] # "start") => Done(1)
    /\ Done(2) => pc[3] # "start"
    /\ Done(3) => pc[2] # "start"
    /\ IsPrefix(Inputs(2), Inputs(1))
    /\ (Len(Inputs(2)) = Len(Inputs(1)) /\ pc[2] # "awaitErrJson")
        => errData[2] \in {NoErrData, errData[1]}

\* Three invocations in one process: one environment, so one credential;
\* invocations 1 and 2 handle the same market_data request, invocation 3 a
\* request of an unrecognized type.
ConcurrentInit ==
    /\ InitOf({1, 2, 3}, ConcurrentRequests, {KeyOf(<<"K">>)})
    /\ req[1] = req[2]
    /\ req[1].body.value.f.type = "market_data"
    /\ req[3].body.value.f.type = "chat"

ConcurrentNext ==
    \/ \E p \in Invocations : CheckMethod(p) /\ AloneThenTogether'
    \/ \E p \in Invocations : CheckCredential(p) /\ AloneThenTogether'
    \/ \E p \in Invocations : ParseBody(p) /\ AloneThenTogether'
    \/ \E p \in Invocations : ClassifyRequest(p) /\ AloneThenTogether'
    \/ \E p \in Invocations : EnterLoop(p) /\ AloneThenTogether'
    \/ \E p \in Invocations : FetchResolve(p) /\ AloneThenTogether'
    \/ \E p \in Invocations : FetchReject(p) /\ AloneThenTogether'
    \/ \E p \in Invocations : ErrJsonResolve(p) /\ AloneThenTogether'
    \/ \E p \in Invocations : TimerFires(p) /\ AloneThenTogether'
    \/ \E p \in Invocations : JsonResolve(p) /\ AloneThenTogether'

Concurrent == ConcurrentInit /\ [][ConcurrentNext]_vars

\* Invocation 2, run together with invocation 3, made the calls, waited the
\* waits and sent the response that invocation 1 did running alone.
SameAsAlone ==
    (Done(1) /\ Done(2) /\ SameUpstream(1, 2))
    => /\ Len(calls[2]) = Len(calls[1])
       /\ i[2] = i[1]
       /\ Waits(2) = Waits(1)
       /\ sent[2] = sent[1]

\* A step changes the state of one invocation at most.
StepIsLocal ==
    \E p \in Invocations : \A q \in Invocations \ {p} : Local(q)' = Local(q)

\* C16: however concurrent invocations interleave at their suspension
\* points, an invocation makes the calls, waits the waits and sends the
\* response it does running alone against the same upstream answers, and no
\* step of one invocation changes the state of another.
C16_Independent == []SameAsAlone /\ [][StepIsLocal]_vars

\* C16's case: invocation 2 ended after two waits and three calls, as
\* invocation 1 did alone, while invocation 3 was suspended in its own first
\* wait.
C16_Witness ==
    /\ Done(1) /\ Done(2) /\ SameUpstream(1, 2)
    /\ Responses(2) = <<429, 429, 200>>
    /\ Waits(2) = <<1000, 2000>>
    /\ Waits(1) = Waits(2) /\ sent[1] = sent[2]
    /\ pc[3] = "sleeping" /\ i[3] = 0
    /\ i[2] = 2

\* ---------------------------------------------------------------------
\* Termination
\* ---------------------------------------------------------------------

\* The success bodies carry short texts.
ShortTexts == \A p \in Invocations : Len(apiData[p].text) <= PairMaxLen

\* The steps the handler takes by itself, without waiting for anything.
Synchronous(p) ==
    \/ CheckMethod(p) /\ ShortTexts'
    \/ CheckCredential(p) /\ ShortTexts'
    \/ ParseBody(p) /\ ShortTexts'
    \/ ClassifyRequest(p) /\ ShortTexts'
    \/ EnterLoop(p) /\ ShortTexts'

\* A promise of the upstream settles: the fetch resolves or rejects, a body
\* has been read.
UpstreamSettles(p) ==
    \/ FetchResolve(p) /\ ShortTexts'
    \/ FetchReject(p) /\ ShortTexts'
    \/ ErrJsonResolve(p) /\ ShortTexts'
    \/ JsonResolve(p) /\ ShortTexts'

EventuallyInit == InitOf({1}, PairRequests, PairCredentials)

EventuallyNext ==
    \/ \E p \in Invocations : CheckMethod(p) /\ ShortTexts'
    \/ \E p \in Invocations : CheckCredential(p) /\ ShortTexts'
    \/ \E p \in Invocations : ParseBody(p) /\ ShortTexts'
    \/ \E p \in Invocations : ClassifyRequest(p) /\ ShortTexts'
    \/ \E p \in Invocations : EnterLoop(p) /\ ShortTexts'
    \/ \E p \in Invocations : FetchResolve(p) /\ ShortTexts'
    \/ \E p \in Invocations : FetchReject(p) /\ ShortTexts'
    \/ \E p \in Invocations : ErrJsonResolve(p) /\ ShortTexts'
    \/ \E p \in Invocations : TimerFires(p) /\ ShortTexts'
    \/ \E p \in Invocations : JsonResolve(p) /\ ShortTexts'

\* One invocation under the scheduling of the event loop: a segment that can
\* run does run, every pending promise of the upstream settles, every timer
\* that was set fires.
Eventually ==
    /\ EventuallyInit
    /\ [][EventuallyNext]_vars
    /\ WF_vars(Synchronous(1))
    /\ WF_vars(UpstreamSettles(1))
    /\ WF_vars(TimerFires(1) /\ ShortTexts')

\* C19: every invocation eventually sends its response, whatever statuses
\* the upstream answers with.
C19_EventuallyResponds ==
    <>(\A p \in Invocations : Len(sent[p]) = 1)

\* C19's case: the upstream answered 429 to every attempt and the invocation
\* sent its response after the sixth.
C19_Witness ==
    \E p \in Invocations :
        /\ Responses(p) = <<429, 429, 429, 429, 429, 429>>
        /\ Len(Waits(p)) = maxRetries
        /\ Len(sent[p]) = 1
        /\ pc[p] = "done"

====
